---- MODULE Spec2Model ----
(***************************************************************************)
(* Playback / interaction state machine of the Lofi FM record player       *)
(* (jsar-lofi-fm.js): the audio singleton, the animation registry, the     *)
(* debounced play button, the toggle sequence and the track switch.        *)
(*                                                                         *)
(* Time is discrete: one tick is 100 ms.  A setTimeout is an entry of      *)
(* `timers` that counts down with Tick and may fire once it reaches 0.     *)
(***************************************************************************)
EXTENDS Integers, Sequences, FiniteSets, TLC

VARIABLES
  gameState,        \* [playing]
  audioState,       \* [musicAudio, playMusic, playButtonClick, currentTrackIndex, trackList]
  animationControl, \* [animations: name -> duration in ticks, running: name -> mode]
  xrControl,        \* [isAnimating, buttonPressed, isHovering, isDragging, selectedModel, buttonState];
                    \* [session]: whether the XR session delivers events and frames
  modelComponents,  \* [visual]: the material applied to the play button;
                    \* [container]: yaw and pitch of the model container
  handles,          \* every Audio object created so far, in creation order
  timers,           \* pending setTimeout continuations
  log,              \* what the last handler did, in order (observation only)
  hist,             \* counters over the whole run (observation only)
  original          \* the original version (lib/main.ts) beside the HTML one:
                    \* [playing, musicAudio, audios, running, timers, down]

vars == <<gameState, audioState, animationControl, xrControl, modelComponents,
          handles, timers, log, hist, original>>

----------------------------------------------------------------------------
(* Program constants (ticks of 100 ms, volume in tenths).                  *)

MinButtonDelay == 5

DefaultButtonAnim == 8

\* the delay of the start continuation of lib/main.ts (1110 ms)
OriginalStartDelay == 11

TrackSwitchDelay == 1

DefaultVolume == 10

\* the angle the vinyl turns per rendered frame while playing (0.01 rad)
VinylStep == 1

\* Angles in units of 30 degrees: Math.PI / 2 is 3 units, a full turn is 12.
QuarterTurn == 3

FullTurn == 4 * QuarterTurn

(* Bounds of the model.                                                    *)

ShortClipTicks == 2

LongClipTicks == 7

MaxPresses == 3

MaxSwitches == 2

\* direct calls of playMusic, togglePlayback and the track switch in SpecCalls
MaxCalls == 3

\* the largest controller displacement between two frames, in angle units
MaxMove == 7

----------------------------------------------------------------------------
(* Inputs.                                                                 *)

ClipNames == {"button_down", "stylus_On", "stylus_playing", "stylus_Off"}

ClipTicks == {ShortClipTicks, LongClipTicks}

\* An animation registry maps the registered clip names to their durations.
Registries ==
  { r \in UNION { [S -> ClipTicks] : S \in SUBSET ClipNames } :
      "stylus_playing" \in DOMAIN r => r["stylus_playing"] = LongClipTicks }

LofiPath == "./audio/lofi.mp3"
ClickPath == "./audio/button-click.wav"

\* audioPath.includes('lofi.mp3')
IncludesLofi(audioPath) == audioPath \in {"./audio/lofi.mp3", "./audio/night-lofi.mp3"}

\* The track list of the source, and longer lists the switch functions allow.
SourceTrackList == << LofiPath >>

TrackLists ==
  { SourceTrackList,
    << LofiPath, "./audio/night-lofi.mp3" >>,
    << LofiPath, "./audio/jazz.mp3" >>,
    << LofiPath, "./audio/night-lofi.mp3", "./audio/jazz.mp3" >> }

\* What the top intersection of the controller ray is.
Hits ==
  { [kind |-> "none",  isButton |-> FALSE, buttonType |-> "",     name |-> "",                 isRotatable |-> FALSE],
    [kind |-> "play",  isButton |-> TRUE,  buttonType |-> "play", name |-> "pause_play",       isRotatable |-> FALSE],
    [kind |-> "prev",  isButton |-> TRUE,  buttonType |-> "prev", name |-> "prev",             isRotatable |-> FALSE],
    [kind |-> "rot",   isButton |-> FALSE, buttonType |-> "",     name |-> "record_player",    isRotatable |-> TRUE] }

\* name.includes('pause_play')
IncludesPausePlay(name) == name \in {"pause_play"}

\* Controller displacement since the previous frame, scaled by
\* xrControl.rotationSpeed and the rotation speed of the rotation function.
Moves ==
  { [x |-> dx, y |-> dy] : dx, dy \in {-MaxMove, -1, 0, 1, MaxMove} }

\* the controller is held still
Still == { [x |-> 0, y |-> 0] }

\* Outcome of HTMLAudioElement.play(): started, or refused by the backend.
PlayOutcomes == {"ok", "rejected"}

\* The ways issuing a play can fail: the promise rejects, or play() throws
\* inside the try block of playAudio.
PlayFailures == {"rejected", "thrown"}

----------------------------------------------------------------------------
(* The world: all program state as one record, so that handlers compose    *)
(* the calls they make in program order.                                   *)

World ==
  [gameState |-> gameState, audioState |-> audioState,
   animationControl |-> animationControl, xrControl |-> xrControl,
   modelComponents |-> modelComponents, handles |-> handles,
   timers |-> timers, log |-> <<>>, hist |-> hist, original |-> original]

Becomes(w) ==
  /\ gameState' = w.gameState
  /\ audioState' = w.audioState
  /\ animationControl' = w.animationControl
  /\ xrControl' = w.xrControl
  /\ modelComponents' = w.modelComponents
  /\ handles' = w.handles
  /\ timers' = w.timers
  /\ log' = w.log
  /\ hist' = w.hist
  /\ original' = w.original

Logged(w, what) == [w EXCEPT !.log = Append(@, what)]

Count(w, counter) == [w EXCEPT !.hist[counter] = @ + 1]

\* a track switch is counted, with its direction
CountSwitch(w, step) == [Count(w, "switches") EXCEPT !.hist.net = @ + step]

----------------------------------------------------------------------------
(* Audio system.                                                           *)

NewAudio(audioPath) ==
  [path |-> audioPath, paused |-> TRUE, currentTime |-> 0, loop |-> FALSE,
   volume |-> DefaultVolume]

\* audio.play(): the handle starts unless the backend refuses the request.
Play(h, outcome) == IF outcome = "ok" THEN [h EXCEPT !.paused = FALSE] ELSE h

\* playPromise.catch(err => console.warn('Audio play failed:', err)), and
\* the catch block of playAudio for a synchronous exception
Warned(w, outcome) ==
  IF outcome = "ok" THEN w
  ELSE IF outcome = "thrown" THEN Logged(w, <<"creation failed">>)
  ELSE Logged(w, <<"play failed">>)

\* Variant of playAudio without the singleton: a new Audio on every call.
playAudioFresh(w, audioPath, volume, outcome) ==
  LET w1 == IF IncludesLofi(audioPath)
            THEN Logged(
                   [w EXCEPT !.handles = Append(@, [NewAudio(audioPath) EXCEPT !.loop = TRUE]),
                             !.audioState.musicAudio = Len(w.handles) + 1],
                   <<"new music">>)
            ELSE [w EXCEPT !.handles = Append(@, NewAudio(audioPath))]
      m == Len(w1.handles)
  IN Logged(
       [w1 EXCEPT !.handles[m] = Play([@ EXCEPT !.volume = volume], outcome)],
       IF IncludesLofi(audioPath) THEN <<"music.play">> ELSE <<"effect.play">>)

\* Variant of playAudio that keeps every sound in the one shared handle.
playAudioShared(w, audioPath, volume, outcome) ==
  LET w1 == IF w.audioState.musicAudio = 0
            THEN [w EXCEPT !.handles = Append(@, NewAudio(audioPath)),
                           !.audioState.musicAudio = Len(w.handles) + 1]
            ELSE w
      m == w1.audioState.musicAudio
  IN Logged(
       [w1 EXCEPT !.handles[m] =
          Play([@ EXCEPT !.volume = volume, !.currentTime = 0], outcome)],
       <<"music.play">>)

\* playAudio of createAudioPlayer(audioPath)
playAudio(w, audioPath, volume, outcome) ==
  Warned(
  IF IncludesLofi(audioPath)
  THEN LET w1 == IF w.audioState.musicAudio = 0
                 THEN Logged(
                        [w EXCEPT !.handles = Append(@, [NewAudio(audioPath) EXCEPT !.loop = TRUE]),
                                  !.audioState.musicAudio = Len(w.handles) + 1],
                        <<"new music">>)
                 ELSE w
           m == w1.audioState.musicAudio
       IN Logged(
            [w1 EXCEPT !.handles[m] =
               Play([@ EXCEPT !.volume = volume, !.currentTime = 0], outcome)],
            <<"music.play">>)
  ELSE Logged(
         [w EXCEPT !.handles =
            Append(@, Play([NewAudio(audioPath) EXCEPT !.volume = volume], outcome))],
         <<"effect.play">>),
  outcome)

\* Variants of pauseMusic: one that does nothing, one that pauses without
\* resetting the position.
pauseMusicSkipped(w) == w

pauseMusicKeepsPosition(w) ==
  IF w.audioState.musicAudio # 0
  THEN Logged([w EXCEPT !.handles[w.audioState.musicAudio].paused = TRUE],
              <<"music.pause">>)
  ELSE w

pauseMusic(w) ==
  IF w.audioState.musicAudio # 0
  THEN Logged(
         [w EXCEPT !.handles[w.audioState.musicAudio] =
            [@ EXCEPT !.paused = TRUE, !.currentTime = 0]],
         <<"music.pause">>)
  ELSE w

cleanupAudio(w) ==
  IF w.audioState.musicAudio # 0
  THEN Count(Logged(
         [w EXCEPT !.handles[w.audioState.musicAudio] = [@ EXCEPT !.paused = TRUE],
                   !.audioState.musicAudio = 0],
         <<"music.cleanup">>), "cleanups")
  ELSE w

\* Variant of playMusic that never reaches the player.
playMusicSkipped(w, outcome) == w

\* audioState.playMusic(), guarded as at every call site
playMusic(w, outcome) ==
  IF w.audioState.playMusic # "null"
  THEN playAudio(w, w.audioState.playMusic, DefaultVolume, outcome)
  ELSE w

\* initAudio: both players are rebuilt for the current track
initAudio(w) ==
  [w EXCEPT !.audioState.playButtonClick = ClickPath,
            !.audioState.playMusic =
               w.audioState.trackList[w.audioState.currentTrackIndex + 1]]

----------------------------------------------------------------------------
(* Animation registry and button visual.                                   *)

Registered(w, animationName) == animationName \in DOMAIN w.animationControl.animations

\* Variant of playAnimation that starts the clip without looking it up.
playAnimationUnchecked(w, animationName, loop) ==
  Logged(
    [w EXCEPT !.animationControl.running =
       [n \in DOMAIN @ \cup {animationName} |->
          IF n = animationName THEN (IF loop THEN "loop" ELSE "once") ELSE @[n]]],
    <<"play", animationName>>)

playAnimation(w, animationName, loop) ==
  IF Registered(w, animationName)
  THEN Logged(
         [w EXCEPT !.animationControl.running[animationName] =
            IF loop THEN "loop" ELSE "once"],
         <<"play", animationName>>)
  ELSE w

stopAnimation(w, animationName) ==
  IF Registered(w, animationName)
  THEN Logged([w EXCEPT !.animationControl.running[animationName] = "stopped"],
              <<"stop", animationName>>)
  ELSE w

\* the material the button gets for a state; "idle" is the original material
\* itself, the others are clones of it with an emissive colour
SetMaterial(w, state, currentState) ==
  [Logged(w, <<"visual", state, w.xrControl.buttonPressed, w.gameState.playing,
               w.xrControl.isHovering, currentState>>)
     EXCEPT !.modelComponents.visual = currentState]

\* Variant of updateButtonStateVisual that ranks playing above pressed.
updateButtonStateVisualPlayingFirst(w, state) ==
  SetMaterial(w, state,
    IF state # "auto" THEN state
    ELSE IF w.gameState.playing THEN "playing"
    ELSE IF w.xrControl.buttonPressed THEN "pressed"
    ELSE IF w.xrControl.isHovering THEN "hover"
    ELSE "idle")

\* state "auto" is the call without an argument
updateButtonStateVisual(w, state) ==
  SetMaterial(w, state,
    IF state # "auto" THEN state
    ELSE IF w.xrControl.buttonPressed THEN "pressed"
    ELSE IF w.gameState.playing THEN "playing"
    ELSE IF w.xrControl.isHovering THEN "hover"
    ELSE "idle")

----------------------------------------------------------------------------
(* Timers.                                                                 *)

\* setTimeout(continuation, delay): kind names the continuation, cb the
\* callback it closes over, press the accepted press it belongs to, at the
\* number of inputs handled when it was scheduled and age the time waited
\* so far (both observation only).
\* the inputs handled so far: accepted presses, direct calls, track switches
Stamp(w) == w.hist.accepted + w.hist.calls + w.hist.switches

setTimeout(w, kind, cb, delay) ==
  Logged(
    [w EXCEPT !.timers = Append(@, [kind |-> kind, cb |-> cb, left |-> delay, age |-> 0,
                                    press |-> w.hist.accepted, at |-> Stamp(w)])],
    <<"timer", kind>>)

RemoveAt(s, i) == SubSeq(s, 1, i - 1) \o SubSeq(s, i + 1, Len(s))

Pending(kind) == \E i \in 1..Len(timers) : timers[i].kind = kind

----------------------------------------------------------------------------
(* Playback sequencer.                                                     *)

\* the callback handed to togglePlayback by onSelectStart (<<"release">>),
\* or one that does nothing ("noop")
onAnimaCompelted(w, cb) ==
  IF cb = "release"
  THEN Count(Logged([w EXCEPT !.xrControl.isAnimating = FALSE], <<"release">>), "released")
  ELSE Logged(w, <<"callback">>)

\* Variant of the write to gameState.playing that never clears it.
SetPlayingOnly(w, value) ==
  Count([w EXCEPT !.gameState.playing = TRUE], "changes")

SetPlaying(w, value) ==
  Count([w EXCEPT !.gameState.playing = value], "changes")

\* Variant of the stylus_On continuation that starts no music.
StylusOnDoneSilent(w, cb, outcome) ==
  updateButtonStateVisual(onAnimaCompelted(SetPlaying(w, TRUE), cb), "auto")

\* Variant of the stylus_On continuation in which a failed play aborts the
\* continuation where it was issued.
StylusOnDoneAborts(w, cb, outcome) ==
  LET w1 == SetPlaying(w, TRUE)
      w2 == IF Registered(w1, "stylus_playing")
            THEN playAnimation(w1, "stylus_playing", TRUE) ELSE w1
  IN IF outcome = "ok"
     THEN updateButtonStateVisual(onAnimaCompelted(playMusic(w2, outcome), cb), "auto")
     ELSE playMusic(w2, outcome)

\* the continuation scheduled after stylus_On
StylusOnDone(w, cb, outcome) ==
  LET w1 == SetPlaying(w, TRUE)
      w2 == IF Registered(w1, "stylus_playing")
            THEN playAnimation(w1, "stylus_playing", TRUE) ELSE w1
      w3 == IF w2.audioState.playMusic # "null"
            THEN onAnimaCompelted(playMusic(w2, outcome), cb)
            ELSE w2
  IN updateButtonStateVisual(w3, "auto")

\* Variant of the stylus_Off continuation that leaves the clip running.
StylusOffDoneKeeps(w) == updateButtonStateVisual(w, "auto")

\* the continuation scheduled after stylus_Off
StylusOffDone(w) ==
  updateButtonStateVisual(stopAnimation(w, "stylus_Off"), "auto")

togglePlayback(w0, cb, outcome) ==
  LET w == Count(w0, "toggles") IN
  IF w.gameState.playing
  THEN LET w1 == SetPlaying(w, FALSE)
           w2 == stopAnimation(stopAnimation(w1, "stylus_On"), "stylus_playing")
           w3 == pauseMusic(w2)
           w4 == onAnimaCompelted(w3, cb)
       IN IF Registered(w4, "stylus_Off")
          THEN setTimeout(playAnimation(w4, "stylus_Off", FALSE), "stylusOff", cb,
                          w4.animationControl.animations["stylus_Off"])
          ELSE updateButtonStateVisual(w4, "auto")
  ELSE IF Registered(w, "stylus_On")
       THEN setTimeout(playAnimation(w, "stylus_On", FALSE), "stylusOn", cb,
                       w.animationControl.animations["stylus_On"])
       ELSE LET w1 == SetPlaying(w, TRUE)
                w2 == IF Registered(w1, "stylus_playing")
                      THEN playAnimation(w1, "stylus_playing", TRUE) ELSE w1
                w3 == playMusic(w2, outcome)
            IN updateButtonStateVisual(w3, "auto")

\* track switch: step is -1 (previous) or +1 (next)
SwitchTrack(w, step) ==
  LET n == Len(w.audioState.trackList) IN
  IF n <= 1 THEN w
  ELSE LET w1 == [w EXCEPT !.audioState.currentTrackIndex = (@ + step + n) % n]
       IN IF w1.gameState.playing
          THEN setTimeout(cleanupAudio(w1), "switch", "noop", TrackSwitchDelay)
          ELSE cleanupAudio(w1)

\* Variant of playPreviousTrack that steps forward.
playPreviousForward(w) == SwitchTrack(w, 1)

playPreviousTrack(w) == SwitchTrack(w, -1)

playNextTrack(w) == SwitchTrack(w, 1)

\* the continuation of a track switch: initAudio().then(playMusic)
SwitchDone(w, outcome) == playMusic(initAudio(w), outcome)

----------------------------------------------------------------------------
(* XR interaction.                                                         *)

\* Variant of the button delay without the 500 ms floor.
ButtonDelayNoFloor(w, animationName) ==
  IF Registered(w, animationName) /\ w.animationControl.animations[animationName] # 0
  THEN w.animationControl.animations[animationName]
  ELSE DefaultButtonAnim

\* Math.max((animations[name]?.duration || 0.8) * 1000, 500)
ButtonDelay(w, animationName) ==
  LET d == IF Registered(w, animationName)
              /\ w.animationControl.animations[animationName] # 0
           THEN w.animationControl.animations[animationName]
           ELSE DefaultButtonAnim
  IN IF d > MinButtonDelay THEN d ELSE MinButtonDelay

\* the play-button branch of onSelectStart, once the lock check has passed
PressPlayButton(w) ==
  LET w1 == Count(Logged([w EXCEPT !.xrControl.isAnimating = TRUE], <<"lock">>), "accepted")
      w2 == IF w1.gameState.playing
            THEN [stopAnimation(w1, "button_down") EXCEPT !.xrControl.buttonState = "up"]
            ELSE [playAnimation(w1, "button_down", FALSE) EXCEPT !.xrControl.buttonState = "down"]
  IN setTimeout(w2, "toggle", "release", ButtonDelay(w2, "button_down"))

\* Variant of the debounce check that never finds the lock held.
LockNever(w) == FALSE

\* the debounce check of onSelectStart
LockHeld(w) == w.xrControl.isAnimating

\* Variant of onSelectStart that plays the click effect before the debounce
\* check.
onSelectStartClicksFirst(w, hit, outcome) ==
  IF hit.kind = "none" THEN w
  ELSE IF hit.isButton
  THEN LET w1 == IF w.audioState.playButtonClick # "null"
                 THEN playAudio(w, w.audioState.playButtonClick, DefaultVolume, outcome)
                 ELSE w
           w2 == IF hit.buttonType = "play" \/ IncludesPausePlay(hit.name)
                 THEN PressPlayButton(w1) ELSE w1
       IN IF LockHeld(w) THEN w1
          ELSE updateButtonStateVisual([w2 EXCEPT !.xrControl.buttonPressed = TRUE], "pressed")
  ELSE IF hit.isRotatable
  THEN Logged([w EXCEPT !.xrControl.selectedModel = "lofi-fm-container",
                        !.xrControl.isDragging = TRUE], <<"drag start">>)
  ELSE w

onSelectStart(w, hit, outcome) ==
  IF hit.kind = "none" THEN w
  ELSE IF hit.isButton
  THEN IF LockHeld(w) THEN w
       ELSE LET w1 == IF w.audioState.playButtonClick # "null"
                      THEN playAudio(w, w.audioState.playButtonClick, DefaultVolume, outcome)
                      ELSE w
                w2 == IF hit.buttonType = "play" \/ IncludesPausePlay(hit.name)
                      THEN PressPlayButton(w1) ELSE w1
            IN updateButtonStateVisual([w2 EXCEPT !.xrControl.buttonPressed = TRUE], "pressed")
  ELSE IF hit.isRotatable
  THEN Logged([w EXCEPT !.xrControl.selectedModel = "lofi-fm-container",
                        !.xrControl.isDragging = TRUE], <<"drag start">>)
  ELSE w

\* Variant of onSelectEnd that also clears the debounce lock.
onSelectEndUnlocks(w) ==
  updateButtonStateVisual(
    [w EXCEPT !.xrControl.buttonPressed = FALSE, !.xrControl.isAnimating = FALSE,
              !.xrControl.isDragging = FALSE, !.xrControl.selectedModel = "null"],
    "auto")

\* Variant of onSelectEnd that ends the drag but keeps its target.
onSelectEndKeepsTarget(w) ==
  LET w1 == IF w.xrControl.buttonPressed
            THEN updateButtonStateVisual([w EXCEPT !.xrControl.buttonPressed = FALSE], "auto")
            ELSE w
  IN IF w1.xrControl.isDragging
     THEN Logged([w1 EXCEPT !.xrControl.isDragging = FALSE], <<"drag end">>)
     ELSE w1

onSelectEnd(w) ==
  LET w1 == IF w.xrControl.buttonPressed
            THEN updateButtonStateVisual([w EXCEPT !.xrControl.buttonPressed = FALSE], "auto")
            ELSE w
  IN IF w1.xrControl.isDragging
     THEN Logged([w1 EXCEPT !.xrControl.isDragging = FALSE,
                            !.xrControl.selectedModel = "null"], <<"drag end">>)
     ELSE w1

\* Variant of the rotation that applies the vertical displacement unclamped.
applyRotationUnclamped(w, deltaMove) ==
  [w EXCEPT !.modelComponents.container =
     [yaw |-> (@.yaw + deltaMove.x) % FullTurn, pitch |-> @.pitch + deltaMove.y]]

\* The container's quaternion is Ry(yaw) Rx(pitch); multiplying Ry(d) on
\* the left and Rx(c - pitch) on the right gives Ry(yaw + d) Rx(c).
applyCameraRelativeRotation(w, deltaMove) ==
  IF deltaMove.x = 0 /\ deltaMove.y = 0 THEN w
  ELSE LET currentEuler == w.modelComponents.container
           newXRotation == currentEuler.pitch + deltaMove.y
           clampedXRotation ==
             IF newXRotation > QuarterTurn THEN QuarterTurn
             ELSE IF newXRotation < -QuarterTurn THEN -QuarterTurn
             ELSE newXRotation
       IN Logged(
            [w EXCEPT !.modelComponents.container =
               [yaw |-> (currentEuler.yaw + deltaMove.x) % FullTurn,
                pitch |-> clampedXRotation]],
            <<"rotate", deltaMove.x, deltaMove.y>>)

\* Variant of rotateVinyl that turns the record whatever the playback state.
rotateVinylAlways(w) == Logged(w, <<"vinyl", -VinylStep>>)

\* rotateVinyl: rotation.z -= 0.01 while playing.  The angle grows without
\* bound and is not kept in the state; every change is logged with its step.
rotateVinyl(w) ==
  IF w.gameState.playing THEN Logged(w, <<"vinyl", -VinylStep>>) ELSE w

\* Variant of handleControllerInteraction that never ends a hover.
handleControllerInteractionSticky(w, hit, move) ==
  LET w1 == IF w.xrControl.isDragging /\ w.xrControl.selectedModel # "null"
            THEN applyCameraRelativeRotation(Logged(w, <<"drag">>),
                                             [x |-> move.x, y |-> -move.y])
            ELSE w
      isHoveringButton == hit.kind # "none" /\ hit.isButton
  IN IF isHoveringButton /\ ~w1.xrControl.isHovering /\ hit.name = "pause_play"
     THEN updateButtonStateVisual([w1 EXCEPT !.xrControl.isHovering = TRUE], "hover")
     ELSE w1

handleControllerInteraction(w, hit, move) ==
  LET w1 == IF w.xrControl.isDragging /\ w.xrControl.selectedModel # "null"
            THEN applyCameraRelativeRotation(Logged(w, <<"drag">>),
                                             [x |-> move.x, y |-> -move.y])
            ELSE w
      isHoveringButton == hit.kind # "none" /\ hit.isButton
      w2 == IF isHoveringButton /\ ~w1.xrControl.isHovering /\ hit.name = "pause_play"
            THEN updateButtonStateVisual([w1 EXCEPT !.xrControl.isHovering = TRUE], "hover")
            ELSE w1
  IN IF ~isHoveringButton /\ w2.xrControl.isHovering
     THEN updateButtonStateVisual([w2 EXCEPT !.xrControl.isHovering = FALSE], "auto")
     ELSE w2

\* Variant of cleanup that also clears the playback state.
cleanupStopsPlayback(w) ==
  [pauseMusic(Logged(w, <<"cleanup">>)) EXCEPT !.gameState.playing = FALSE]

\* cleanup(renderer, scene): the render loop is stopped by the caller's
\* model of the session, the music is paused, GPU resources are disposed
cleanup(w) == pauseMusic(Logged(w, <<"cleanup">>))

----------------------------------------------------------------------------
(* The original version, lib/main.ts.                                      *)

\* the function createAudioPlayer returns: a new Audio on every call,
\* played at once
createAudioPlayer(w, name) ==
  [w EXCEPT !.original.audios = Append(@, [path |-> name, paused |-> FALSE])]

\* Variant of the original pauseMusic that forgets the element without
\* pausing it.
originalPauseMusicForgets(w) == [w EXCEPT !.original.musicAudio = 0]

\* pauseMusic of lib/main.ts: pause the element and forget it
originalPauseMusic(w) ==
  IF w.original.musicAudio # 0
  THEN [w EXCEPT !.original.audios[w.original.musicAudio].paused = TRUE,
                 !.original.musicAudio = 0]
  ELSE w

\* 'raydown' on the play button (down: the ray is held, observation only)
raydown(w) ==
  createAudioPlayer([w EXCEPT !.original.running["button_down"] = "once",
                              !.original.down = TRUE],
                    "button-click.wav")

\* 'rayup' on the play button: stop at once, or start after the delay
rayup(w) ==
  LET w1 == [w EXCEPT !.original.running["button_up"] = "once", !.original.down = FALSE]
  IN IF w1.original.playing
     THEN originalPauseMusic([w1 EXCEPT !.original.playing = FALSE,
                                        !.original.running["stylus_playing"] = "stopped",
                                        !.original.running["stylus_Off"] = "once"])
     ELSE [w1 EXCEPT !.original.running["stylus_On"] = "once",
                     !.original.timers = Append(@, OriginalStartDelay)]

\* the timeout callback of 'rayup'
rayupStart(w) ==
  LET w1 == createAudioPlayer([w EXCEPT !.original.playing = TRUE,
                                        !.original.running["stylus_playing"] = "loop"],
                              "lofi.mp3")
  IN [w1 EXCEPT !.original.musicAudio = Len(w1.original.audios)]

----------------------------------------------------------------------------
(* Initial states.                                                         *)

\* lib/main.ts after 'spaceReady': stopped, no music element, the five
\* animation groups found and at rest, no timeout waiting, no ray held down
OriginalGroups == {"button_down", "button_up", "stylus_On", "stylus_playing", "stylus_Off"}

OriginalInit ==
  [playing |-> FALSE, musicAudio |-> 0, audios |-> <<>>,
   running |-> [n \in OriginalGroups |-> "stopped"], timers |-> <<>>, down |-> FALSE]

InitWith(trackLists, registries) ==
  /\ gameState = [playing |-> FALSE]
  /\ \E tl \in trackLists :
       audioState = [musicAudio |-> 0, playMusic |-> tl[1], playButtonClick |-> ClickPath,
                     currentTrackIndex |-> 0, trackList |-> tl]
  /\ \E r \in registries :
       animationControl = [animations |-> r, running |-> [n \in DOMAIN r |-> "stopped"]]
  /\ xrControl = [isAnimating |-> FALSE, buttonPressed |-> FALSE, isHovering |-> FALSE,
                  isDragging |-> FALSE, selectedModel |-> "null", buttonState |-> "up",
                  session |-> TRUE]
  /\ modelComponents = [visual |-> "idle", container |-> [yaw |-> 0, pitch |-> 0]]
  /\ handles = <<>>
  /\ timers = <<>>
  /\ log = <<>>
  /\ hist = [accepted |-> 0, toggles |-> 0, released |-> 0, changes |-> 0, switches |-> 0,
             cleanups |-> 0, calls |-> 0, net |-> 0]
  /\ original = OriginalInit

Init == InitWith({SourceTrackList}, Registries)

\* registries with every clip or none, the timed clips short
UniformRegistries ==
  { r \in Registries :
      /\ DOMAIN r \in {ClipNames, {}}
      /\ \A a \in DOMAIN r \ {"stylus_playing"} : r[a] = ShortClipTicks }

\* every clip or none, the timed clips of either length
InitCast ==
  InitWith({SourceTrackList}, {r \in Registries : DOMAIN r \in {ClipNames, {}}})

\* a lofi track followed by one whose path lacks 'lofi.mp3'
TwoTracks == << LofiPath, "./audio/jazz.mp3" >>

\* two tracks whose paths both hold 'lofi.mp3'
LofiTracks == << LofiPath, "./audio/night-lofi.mp3" >>

InitTracks == InitWith({TwoTracks, LofiTracks}, UniformRegistries)

\* registries with stylus_On and stylus_Off both present or both absent
StylusRegistries ==
  { r \in Registries :
      /\ "button_down" \notin DOMAIN r
      /\ \A a \in DOMAIN r \ {"stylus_playing"} : r[a] = ShortClipTicks
      /\ "stylus_On" \in DOMAIN r <=> "stylus_Off" \in DOMAIN r }

InitCalls == InitWith(TrackLists, StylusRegistries)

----------------------------------------------------------------------------
(* Actions.  O is the set of outcomes play() may have.                     *)

\* Whether the handler was given a controller object.
Controllers == BOOLEAN

\* the empty intersection list
NoHit == CHOOSE h \in Hits : h.kind = "none"

\* Variant of getIntersections that casts the ray without a controller.
getIntersectionsUnchecked(controller, top) == top

\* getIntersections(controller): top is what the controller's ray meets
getIntersections(controller, top) == IF ~controller THEN NoHit ELSE top

\* the ray casts a press handler may see: a controller whose ray meets any
\* of the hits, or no controller, for which no ray is cast whatever lies
\* ahead (the play button stands for it)
Casts ==
  {[controller |-> TRUE, top |-> h] : h \in Hits}
    \cup {[controller |-> FALSE, top |-> h] : h \in {g \in Hits : g.kind = "play"}}

\* what the event log records of the ray cast
Cast(controller, top) ==
  IF controller THEN getIntersections(controller, top).kind ELSE "no controller"

\* the same for a rendered frame: nothing, a button, or another object
FrameCast(controller, top) ==
  LET hit == getIntersections(controller, top)
  IN IF hit.kind = "none" THEN Cast(controller, top)
     ELSE IF hit.isButton THEN "button" ELSE "object"

NumClicks == Cardinality({i \in 1..Len(handles) : handles[i].path = ClickPath})

\* button presses and track-switch requests so far
NumInputs == NumClicks + hist.switches

\* C is the set of ray casts the press may see
SelectStartOn(C, O) ==
  \E c \in C, o \in O :
    LET hit == getIntersections(c.controller, c.top) IN
    /\ xrControl.session
    /\ (hit.isButton /\ ~xrControl.isAnimating) => NumInputs < MaxPresses
    /\ Becomes(Logged(onSelectStart(Logged(World, <<"selectstart", Cast(c.controller, c.top)>>),
                                    hit, o), <<"end">>))

SelectStart(O) == SelectStartOn(Casts, O)

SelectEnd ==
  /\ xrControl.session
  /\ Becomes(onSelectEnd(Logged(World, <<"selectend">>)))

\* H is the set of things the ray may meet in a frame, M the set of
\* displacements the controller may make between frames; the render loop
\* always holds the controller it was set up with
RenderFrameOn(H, M) ==
  \E top \in H, move \in M :
    /\ xrControl.session
    /\ Becomes(handleControllerInteraction(
                 rotateVinyl(Logged(World, <<"frame", FrameCast(TRUE, top)>>)),
                 getIntersections(TRUE, top), move))

RenderFrame(M) == RenderFrameOn(Hits, M)

\* the session 'end' listener: events and frames stop, cleanup runs
SessionEnd ==
  /\ xrControl.session
  /\ Becomes(cleanup([Logged(World, <<"sessionend">>) EXCEPT !.xrControl.session = FALSE]))

Expired(i) == i \in 1..Len(timers) /\ timers[i].left = 0

\* 100 ms pass: no expired timer is left waiting, playing audio advances
Elapse ==
  /\ \A i \in 1..Len(timers) : timers[i].left > 0
  /\ timers' = [i \in 1..Len(timers) |->
                  [timers[i] EXCEPT !.left = @ - 1, !.age = @ + 1]]
  /\ handles' = [i \in 1..Len(handles) |->
                   IF handles[i].paused THEN handles[i]
                   ELSE [handles[i] EXCEPT !.currentTime = 1]]
  /\ log' = <<>>
  /\ UNCHANGED <<gameState, audioState, animationControl, xrControl, modelComponents, hist>>

Tick == Elapse /\ UNCHANGED original

Fired(i) == [World EXCEPT !.timers = RemoveAt(@, i)]

ToggleTimer(O) ==
  \E i \in 1..Len(timers), o \in O :
    /\ Expired(i) /\ timers[i].kind = "toggle"
    /\ Becomes(togglePlayback(Logged(Fired(i), <<"toggle", timers[i].press>>), timers[i].cb, o))

StylusOnTimer(O) ==
  \E i \in 1..Len(timers), o \in O :
    /\ Expired(i) /\ timers[i].kind = "stylusOn"
    /\ Becomes(StylusOnDone(Logged(Fired(i), <<"stylusOn", timers[i].press>>), timers[i].cb, o))

StylusOffTimer ==
  \E i \in 1..Len(timers) :
    /\ Expired(i) /\ timers[i].kind = "stylusOff"
    /\ Becomes(StylusOffDone(Logged(Fired(i), <<"stylusOff", timers[i].press>>)))

SwitchTimer(O) ==
  \E i \in 1..Len(timers), o \in O :
    /\ Expired(i) /\ timers[i].kind = "switch"
    /\ Becomes(SwitchDone(Logged(Fired(i), <<"switch", timers[i].press>>), o))

PreviousTrack ==
  /\ hist.switches < MaxSwitches /\ NumInputs < MaxPresses
  /\ Becomes(playPreviousTrack(CountSwitch(Logged(World, <<"previous">>), -1)))

NextTrack ==
  /\ hist.switches < MaxSwitches /\ NumInputs < MaxPresses
  /\ Becomes(playNextTrack(CountSwitch(Logged(World, <<"next">>), 1)))

Ok == {"ok"}

\* The program as wired: XR events, render frames and timers, the controller
\* held still while dragging (SpecDrag moves it).
\* The program in a session whose controller is always there and whose
\* frames find a button or nothing under the ray: a frame treats any other
\* object as it treats nothing (SpecCast has both, and the lost controller).
PressCasts == {c \in Casts : c.controller}

FrameHits == {h \in Hits : h.isButton \/ h.kind = "none"}

Next ==
  \/ SelectStartOn(PressCasts, Ok)
  \/ SelectEnd
  \/ RenderFrameOn(FrameHits, Still)
  \/ SessionEnd
  \/ Tick
  \/ ToggleTimer(Ok)
  \/ StylusOnTimer(Ok)
  \/ StylusOffTimer

Spec == Init /\ [][Next]_vars

\* The same with every ray cast: a press without a controller, and frames
\* whose ray meets an object that is not a button.
NextCast ==
  \/ SelectStart(Ok)
  \/ SelectEnd
  \/ RenderFrame(Still)
  \/ SessionEnd
  \/ Tick
  \/ ToggleTimer(Ok)
  \/ StylusOnTimer(Ok)
  \/ StylusOffTimer

SpecCast == InitCast /\ [][NextCast]_vars

\* The program with the previous/next buttons wired to the track switch.
NextTracks ==
  \/ Next
  \/ PreviousTrack
  \/ NextTrack
  \/ SwitchTimer(Ok)

SpecTracks == InitTracks /\ [][NextTracks]_vars

\* The drag path with a moving controller: the trigger is pressed on the
\* model or on nothing, released, and frames are rendered in between.
DragStart ==
  \E hit \in {h \in Hits : ~h.isButton} :
    /\ xrControl.session
    /\ Becomes(Logged(onSelectStart(Logged(World, <<"selectstart", hit.kind>>), hit, "ok"),
                      <<"end">>))

NextDrag ==
  \/ DragStart
  \/ SelectEnd
  \/ RenderFrame(Moves)

InitDrag == InitWith({SourceTrackList}, UniformRegistries)

SpecDrag == InitDrag /\ [][NextDrag]_vars

----------------------------------------------------------------------------
(* The functions called directly, in any order, with a callback that does  *)
(* nothing and a backend that may refuse to play.                          *)

CallPlayMusic ==
  \E o \in PlayOutcomes :
    /\ hist.calls < MaxCalls
    /\ Becomes(playMusic(Count(Logged(World, <<"call", "playMusic">>), "calls"), o))

CallPauseMusic == Becomes(pauseMusic(Logged(World, <<"call", "pauseMusic">>)))

CallCleanupAudio == Becomes(cleanupAudio(Logged(World, <<"call", "cleanupAudio">>)))

CallTogglePlayback ==
  \E o \in PlayOutcomes :
    /\ hist.calls < MaxCalls
    /\ Becomes(togglePlayback(Count(Logged(World, <<"call", "togglePlayback">>), "calls"),
                              "noop", o))

CallPreviousTrack ==
  /\ hist.calls < MaxCalls
  /\ Becomes(playPreviousTrack(
       Count(CountSwitch(Logged(World, <<"call", "playPreviousTrack">>), -1), "calls")))

CallNextTrack ==
  /\ hist.calls < MaxCalls
  /\ Becomes(playNextTrack(
       Count(CountSwitch(Logged(World, <<"call", "playNextTrack">>), 1), "calls")))

\* audioState.playButtonClick() called directly
CallPlayButtonClick ==
  \E o \in PlayOutcomes :
    /\ hist.calls < MaxCalls
    /\ Becomes(playAudio(Count(Logged(World, <<"call", "playButtonClick">>), "calls"),
                         audioState.playButtonClick, DefaultVolume, o))

NextCalls ==
  \/ CallPlayMusic
  \/ CallPlayButtonClick
  \/ CallPauseMusic
  \/ CallCleanupAudio
  \/ CallTogglePlayback
  \/ CallPreviousTrack
  \/ CallNextTrack
  \/ Tick
  \/ StylusOnTimer(PlayOutcomes)
  \/ StylusOffTimer
  \/ SwitchTimer(PlayOutcomes)

SpecCalls == InitCalls /\ [][NextCalls]_vars

\* The press-to-toggle path with every clip registered, under the scheduling
\* of the event loop: an expired timer fires, else time passes.  Render
\* frames move only the hover and drag state and are left to Spec.
StylusClips == {"stylus_On", "stylus_playing", "stylus_Off"}

LiveRegistries ==
  { r \in Registries : DOMAIN r = ClipNames /\ r["button_down"] = ShortClipTicks }

InitLive == InitWith({SourceTrackList}, LiveRegistries)

Progress == Tick \/ ToggleTimer(Ok) \/ StylusOnTimer(Ok) \/ StylusOffTimer

\* presses on a button or on nothing, with a controller
LiveCasts == {c \in Casts : c.controller /\ c.top.kind \in {"play", "prev", "none"}}

NextLive ==
  \/ SelectStartOn(LiveCasts, Ok)
  \/ SelectEnd
  \/ Progress

LiveSpec == InitLive /\ [][NextLive]_vars /\ WF_vars(Progress)

\* playAnimation and stopAnimation called on their own, with the name of
\* any clip or of none, for every registry.
AnimationNames == ClipNames \cup {"unknown"}

CallPlayAnimation ==
  \E animationName \in AnimationNames, loop \in BOOLEAN :
    Becomes(playAnimation(
      Logged(Logged(World, <<"call", "playAnimation">>), <<"name", animationName, loop>>),
      animationName, loop))

CallStopAnimation ==
  \E animationName \in AnimationNames :
    Becomes(stopAnimation(
      Logged(Logged(World, <<"call", "stopAnimation">>), <<"name", animationName>>),
      animationName))

NextAnim ==
  \/ CallPlayAnimation
  \/ CallStopAnimation

SpecAnim == Init /\ [][NextAnim]_vars

\* The wired press path with an audio backend that may refuse or throw on
\* any play, for the full and the empty animation registry.
InitRetry == InitWith({SourceTrackList}, UniformRegistries \cup LiveRegistries)

NextRetry ==
  \/ SelectStart(PlayOutcomes \cup PlayFailures)
  \/ SelectEnd
  \/ Tick
  \/ ToggleTimer(PlayOutcomes \cup PlayFailures)
  \/ StylusOnTimer(PlayOutcomes \cup PlayFailures)
  \/ StylusOffTimer

SpecRetry == InitRetry /\ [][NextRetry]_vars

\* Both versions driven by the same gestures on the play button, every
\* clip registered: a press, then a release at any later time, and the next
\* press only once no timer of either version is waiting.
PlayButton == CHOOSE h \in Hits : h.kind = "play"

GestureIdle ==
  /\ timers = <<>> /\ original.timers = <<>>
  /\ ~xrControl.buttonPressed /\ ~original.down

GesturePress ==
  /\ GestureIdle
  /\ NumInputs < MaxPresses
  /\ Becomes(Logged(raydown(onSelectStart(Logged(World, <<"selectstart", "play">>),
                                         getIntersections(TRUE, PlayButton), "ok")),
                    <<"end">>))

GestureRelease ==
  /\ original.down
  /\ Becomes(rayup(onSelectEnd(Logged(World, <<"selectend">>))))

\* 100 ms pass for both versions
TickBoth ==
  /\ Elapse
  /\ \A i \in 1..Len(original.timers) : original.timers[i] > 0
  /\ original' = [original EXCEPT !.timers = [i \in 1..Len(@) |-> @[i] - 1]]

OriginalTimer ==
  \E i \in 1..Len(original.timers) :
    /\ original.timers[i] = 0
    /\ Becomes(rayupStart(Logged([World EXCEPT !.original.timers = RemoveAt(@, i)],
                                 <<"original start">>)))

NextBoth ==
  \/ GesturePress
  \/ GestureRelease
  \/ TickBoth
  \/ ToggleTimer(Ok)
  \/ StylusOnTimer(Ok)
  \/ StylusOffTimer
  \/ OriginalTimer

SpecBoth == InitLive /\ [][NextBoth]_vars

----------------------------------------------------------------------------
(* Vocabulary of the properties.                                           *)

Range(q) == {q[i] : i \in 1..Len(q)}

\* handles created for a track of the track list (not the click effect)
MusicHandles == {i \in 1..Len(handles) : handles[i].path # ClickPath}

MusicHandlesAfter == {i \in 1..Len(handles') : handles'[i].path # ClickPath}

Unpaused == {i \in MusicHandles : ~handles[i].paused}

MusicPlaying ==
  audioState.musicAudio # 0 /\ ~handles[audioState.musicAudio].paused

\* the step is a call of the named function, directly or inside a handler
CallOf(fn) == Len(log') > 0 /\ Head(log') = <<"call", fn>>

Did(what) == what \in Range(log')

OnlyLogChanged ==
  UNCHANGED <<gameState, audioState, animationControl, xrControl, modelComponents,
              handles, timers, hist>>

----------------------------------------------------------------------------
(* C1: as long as cleanupAudio has discarded nothing, playMusic and        *)
(* pauseMusic calls in any order create at most one music handle, every    *)
(* playMusic call leaves (and returns) that one handle as                  *)
(* audioState.musicAudio, and pauseMusic never changes the reference.      *)

C1_OneHandle ==
  hist.cleanups = 0 =>
    /\ Cardinality(MusicHandles) <= 1
    /\ audioState.musicAudio \in {0} \cup MusicHandles

C1_PlayReturnsIt ==
  (Did(<<"music.play">>) \/ Did(<<"effect.play">>)) /\ hist.cleanups' = 0
     /\ ~Did(<<"music.cleanup">>) /\ ~CallOf("playButtonClick") =>
    /\ audioState.musicAudio' # 0
    /\ MusicHandlesAfter = {audioState.musicAudio'}
    /\ audioState.musicAudio # 0 => audioState.musicAudio' = audioState.musicAudio

C1_PauseKeepsIt ==
  (CallOf("pauseMusic") \/ Did(<<"music.pause">>)) /\ ~Did(<<"music.cleanup">>) =>
     audioState.musicAudio' = audioState.musicAudio

C1_SingletonMusic ==
  /\ []C1_OneHandle
  /\ [][C1_PlayReturnsIt /\ C1_PauseKeepsIt]_vars

\* playMusic was called twice and pauseMusic in between, one handle exists
C1_Witness ==
  /\ hist.cleanups = 0
  /\ Len(log) > 0 /\ Head(log) = <<"call", "playMusic">>
  /\ <<"new music">> \notin Range(log)
  /\ Cardinality(MusicHandles) = 1
  /\ audioState.musicAudio = 1

----------------------------------------------------------------------------
(* C2: at most one music handle is unpaused, and every music handle that   *)
(* audioState.musicAudio no longer references is paused.                   *)

C2_NoOrphanPlaying ==
  /\ Cardinality(Unpaused) <= 1
  /\ \A i \in MusicHandles : i # audioState.musicAudio => handles[i].paused

----------------------------------------------------------------------------
(* C3: a play-button press that arrives while the debounce lock is held    *)
(* is dropped (it changes nothing and is never replayed): every call of    *)
(* togglePlayback and every change of gameState.playing belongs to an      *)
(* accepted press, one change per accepted press.                          *)

PressPlay == Len(log') > 0 /\ Head(log') = <<"selectstart", "play">>

C3_Counts ==
  /\ hist.toggles <= hist.accepted
  /\ hist.changes <= hist.toggles
  /\ hist.accepted - hist.changes <= 1
  /\ (~Pending("toggle") /\ ~Pending("stylusOn")) => hist.changes = hist.accepted

C3_Dropped == (PressPlay /\ xrControl.isAnimating) => OnlyLogChanged

C3_AcceptedByPress ==
  hist.accepted' # hist.accepted =>
    PressPlay /\ ~xrControl.isAnimating /\ hist.accepted' = hist.accepted + 1

----------------------------------------------------------------------------
(* C4: a play-button press received while Starting (stylus_On wait          *)
(* pending) or Stopping (stylus_Off wait pending) is ignored: it sets no   *)
(* lock, schedules no timer and leads to no togglePlayback call.           *)

C4_BusyPressIgnored ==
  [][ (PressPlay /\ ~gameState.playing
         /\ (Pending("stylusOn") \/ Pending("stylusOff"))) => OnlyLogChanged ]_vars

----------------------------------------------------------------------------
(* C5: at most one toggle sequence is in flight, a sequence running from   *)
(* its accepted press until the last timer it scheduled has fired.         *)

InFlight ==
  {timers[i].press : i \in {j \in 1..Len(timers) :
                              timers[j].kind \in {"toggle", "stylusOn", "stylusOff"}}}

C5_OneSequenceInFlight == Cardinality(InFlight) <= 1

----------------------------------------------------------------------------
(* C6: with the stylus clips registered and timers firing, an accepted     *)
(* press while not playing leads to playing with the music handle          *)
(* playing, and an accepted press while playing leads to not playing       *)
(* with the music handle paused.                                           *)

StartAccepted == ~gameState.playing /\ Pending("toggle")

StopAccepted == gameState.playing /\ Pending("toggle")

MusicPausedAtZero ==
  /\ audioState.musicAudio # 0
  /\ handles[audioState.musicAudio].paused
  /\ Unpaused = {}

----------------------------------------------------------------------------
(* C7: for every registry, once every scheduled continuation has fired     *)
(* the debounce lock is not held (the next press is accepted).             *)

C7_QuiescentUnlocked == timers = <<>> => ~xrControl.isAnimating

----------------------------------------------------------------------------
(* C8: on a registry with neither stylus_On nor stylus_Off, with the track *)
(* of the source and nothing discarded, a togglePlayback call made while   *)
(* not playing sets playing and issues the music play within the call, a   *)
(* call made while playing clears playing and leaves the music handle      *)
(* paused within the call, and neither call schedules a timer.             *)

NoStylusOnOff ==
  /\ "stylus_On" \notin DOMAIN animationControl.animations
  /\ "stylus_Off" \notin DOMAIN animationControl.animations

NoTimerScheduled ==
  /\ timers' = timers
  /\ \A k \in {"toggle", "stylusOn", "stylusOff", "switch"} : ~Did(<<"timer", k>>)

C8_Call ==
  (CallOf("togglePlayback") /\ NoStylusOnOff
     /\ hist.switches = 0 /\ hist.cleanups = 0) =>
    /\ NoTimerScheduled
    /\ IF ~gameState.playing
       THEN /\ gameState.playing'
            /\ Did(<<"music.play">>)
            /\ audioState.musicAudio' # 0
            /\ handles'[audioState.musicAudio'].currentTime = 0
       ELSE /\ ~gameState.playing'
            /\ Did(<<"music.pause">>)
            /\ audioState.musicAudio' # 0
            /\ handles'[audioState.musicAudio'].paused
            /\ \A i \in MusicHandlesAfter : handles'[i].paused

C8_DegradedToggle == [][C8_Call]_vars

\* the second of two togglePlayback calls has returned, no timer pending
C8_Witness ==
  /\ NoStylusOnOff
  /\ hist.toggles = 2 /\ hist.changes = 2 /\ hist.switches = 0 /\ hist.cleanups = 0
  /\ Len(log) > 0 /\ Head(log) = <<"call", "togglePlayback">>
  /\ ~gameState.playing
  /\ audioState.musicAudio # 0 /\ handles[audioState.musicAudio].paused
  /\ timers = <<>>

----------------------------------------------------------------------------
(* C9: the debounce lock is cleared only by the callback of the press      *)
(* that set it, running in that press's togglePlayback call or its         *)
(* stylus_On continuation, and the callback runs at most once per          *)
(* accepted press; press-end, render frames (hover, drag) and ignored      *)
(* presses never clear it.                                                 *)

C9_Release ==
  Len(log') > 0
    /\ Head(log') \in {<<"toggle", hist.accepted>>, <<"stylusOn", hist.accepted>>}
    /\ Did(<<"release">>)

C9_Cleared ==
  (xrControl.isAnimating /\ ~xrControl.isAnimating') =>
    /\ C9_Release
    /\ hist.released' = hist.released + 1

C9_Called ==
  hist.released' # hist.released =>
    /\ C9_Release
    /\ xrControl.isAnimating /\ ~xrControl.isAnimating'
    /\ hist.released = hist.accepted - 1
    /\ hist.released' = hist.accepted

C9_ReleasedByCallback ==
  /\ [](hist.released <= hist.accepted)
  /\ [][C9_Cleared /\ C9_Called]_vars

\* a press-end is handled while the second accepted press holds the lock
C9_Witness ==
  /\ xrControl.isAnimating
  /\ hist.accepted = 2 /\ hist.released = 1
  /\ log = << <<"selectend">> >>

----------------------------------------------------------------------------
(* C10: a pauseMusic call with a music handle leaves that handle paused at *)
(* position zero, a pauseMusic call without one changes nothing, and a     *)
(* music handle that starts playing starts at position zero.               *)

C10_Pause ==
  CallOf("pauseMusic") =>
    IF audioState.musicAudio # 0
    THEN /\ audioState.musicAudio' = audioState.musicAudio
         /\ handles'[audioState.musicAudio].paused
         /\ handles'[audioState.musicAudio].currentTime = 0
    ELSE OnlyLogChanged

C10_PlayFromZero ==
  \A i \in MusicHandlesAfter :
    (~handles'[i].paused /\ (i \in MusicHandles => handles[i].paused)) =>
       handles'[i].currentTime = 0

C10_PauseResets ==
  /\ [][C10_Pause /\ C10_PlayFromZero]_vars

\* pauseMusic has just paused the handle a togglePlayback call had created
C10_Witness ==
  /\ log = << <<"call", "pauseMusic">>, <<"music.pause">> >>
  /\ audioState.musicAudio # 0
  /\ handles[audioState.musicAudio].paused
  /\ handles[audioState.musicAudio].currentTime = 0
  /\ hist.toggles > 0

----------------------------------------------------------------------------
(* C11: with stylus_On registered, a togglePlayback call made while not    *)
(* playing neither sets playing nor issues the music play: it starts       *)
(* stylus_On and schedules the continuation after the clip's duration.     *)
(* While that wait is pending the state is not playing and no music        *)
(* sounds; the continuation runs when the wait has elapsed and, in one     *)
(* step, sets playing, starts stylus_playing looping (when registered) and *)
(* issues the music play.                                                  *)

StepOf(kind) == Len(log') > 0 /\ Head(log')[1] = kind

StylusOnWaits ==
  {i \in 1..Len(timers) : timers[i].kind = "stylusOn"}

C11_Start ==
  (StepOf("toggle") /\ ~gameState.playing
     /\ "stylus_On" \in DOMAIN animationControl.animations) =>
    /\ ~gameState.playing'
    /\ ~Did(<<"music.play">>)
    /\ handles' = handles
    /\ animationControl.running'["stylus_On"] = "once"
    /\ Len(timers') > 0
    /\ timers'[Len(timers')].kind = "stylusOn"
    /\ timers'[Len(timers')].left = animationControl.animations["stylus_On"]

C11_Waiting ==
  StylusOnWaits # {} => ~gameState.playing /\ Unpaused = {}

C11_Done ==
  StepOf("stylusOn") =>
    /\ \E i \in StylusOnWaits : timers[i].left = 0
    /\ ~gameState.playing /\ gameState.playing'
    /\ Did(<<"music.play">>)
    /\ audioState.musicAudio' # 0
    /\ ~handles'[audioState.musicAudio'].paused
    /\ "stylus_playing" \in DOMAIN animationControl.animations =>
          animationControl.running'["stylus_playing"] = "loop"

C11_OnlyThen ==
  ((gameState.playing' /\ ~gameState.playing) \/ Did(<<"music.play">>)) =>
     \/ StepOf("stylusOn")
     \/ StepOf("toggle") /\ "stylus_On" \notin DOMAIN animationControl.animations

C11_StartAfterStylusOn ==
  /\ []C11_Waiting
  /\ [][C11_Start /\ C11_Done /\ C11_OnlyThen]_vars

\* the stylus_On continuation of the first press has just run
C11_Witness ==
  /\ Len(log) > 0 /\ Head(log) = <<"stylusOn", 1>>
  /\ gameState.playing /\ MusicPlaying
  /\ "stylus_playing" \in DOMAIN animationControl.animations
  /\ animationControl.running["stylus_playing"] = "loop"

----------------------------------------------------------------------------
(* C12: the togglePlayback call of an accepted press made while playing    *)
(* stops stylus_playing, pauses the music and invokes the callback before  *)
(* it starts stylus_Off, and leaves stylus_Off running and the button      *)
(* visual untouched; stylus_Off is stopped and the visual refreshed by the *)
(* continuation, which runs when the clip's duration has elapsed.          *)

\* within the step, effect a happens, and before every effect b
Before(a, b) ==
  /\ Did(a)
  /\ \A j \in 1..Len(log') :
       log'[j] = b => \E i \in 1..(j - 1) : log'[i] = a

StylusOffWaits ==
  {i \in 1..Len(timers) : timers[i].kind = "stylusOff"}

AutoVisual ==
  IF xrControl.buttonPressed THEN "pressed"
  ELSE IF gameState.playing THEN "playing"
  ELSE IF xrControl.isHovering THEN "hover"
  ELSE "idle"

C12_Stop ==
  (StepOf("toggle") /\ gameState.playing) =>
    /\ ~gameState.playing'
    /\ "stylus_playing" \in DOMAIN animationControl.animations =>
         /\ Before(<<"stop", "stylus_playing">>, <<"play", "stylus_Off">>)
         /\ animationControl.running'["stylus_playing"] = "stopped"
    /\ audioState.musicAudio # 0 =>
         /\ Before(<<"music.pause">>, <<"play", "stylus_Off">>)
         /\ handles'[audioState.musicAudio].paused
    /\ Before(<<"release">>, <<"play", "stylus_Off">>)
    /\ "stylus_Off" \in DOMAIN animationControl.animations =>
         /\ Did(<<"play", "stylus_Off">>)
         /\ ~Did(<<"stop", "stylus_Off">>)
         /\ animationControl.running'["stylus_Off"] = "once"
         /\ modelComponents' = modelComponents
         /\ Len(timers') > 0
         /\ timers'[Len(timers')].kind = "stylusOff"
         /\ timers'[Len(timers')].left = animationControl.animations["stylus_Off"]

C12_Done ==
  StepOf("stylusOff") =>
    /\ \E i \in StylusOffWaits : timers[i].left = 0
    /\ Did(<<"stop", "stylus_Off">>)
    /\ animationControl.running'["stylus_Off"] = "stopped"
    /\ modelComponents'.visual = AutoVisual

C12_OnlyThen == Did(<<"stop", "stylus_Off">>) => StepOf("stylusOff")

C12_StopBeforeStylusOff ==
  /\ [][C12_Stop /\ C12_Done /\ C12_OnlyThen]_vars

\* the stylus_Off continuation of the second press has just run
C12_Witness ==
  /\ Len(log) > 0 /\ Head(log) = <<"stylusOff", 2>>
  /\ ~gameState.playing
  /\ animationControl.running["stylus_Off"] = "stopped"
  /\ audioState.musicAudio # 0 /\ handles[audioState.musicAudio].paused

----------------------------------------------------------------------------
(* C13: every call of the click player appends a fresh handle for the      *)
(* click sound and changes nothing else: the music reference and every     *)
(* existing handle (paused flag, position) stay as they were; the music    *)
(* reference never points to a click handle.                               *)

C13_Effect ==
  CallOf("playButtonClick") =>
    /\ Len(handles') = Len(handles) + 1
    /\ SubSeq(handles', 1, Len(handles)) = handles
    /\ handles'[Len(handles')].path = ClickPath
    /\ handles'[Len(handles')].currentTime = 0
    /\ audioState' = audioState
    /\ gameState' = gameState
    /\ timers' = timers

C13_NotSingleton ==
  audioState.musicAudio # 0 => handles[audioState.musicAudio].path # ClickPath

C13_EffectsIndependent ==
  /\ []C13_NotSingleton
  /\ [][C13_Effect]_vars

\* the second click has been played over music that is playing mid-track
C13_Witness ==
  /\ Len(log) > 0 /\ Head(log) = <<"call", "playButtonClick">>
  /\ NumClicks = 2
  /\ MusicPlaying
  /\ handles[audioState.musicAudio].currentTime = 1

----------------------------------------------------------------------------
(* C14: whatever the controller displacements while dragging, the pitch    *)
(* of the container stays within -90..+90 degrees after every frame, and   *)
(* the yaw takes the whole horizontal displacement, with no clamp.         *)

C14_Pitch == modelComponents.container.pitch \in (-QuarterTurn)..QuarterTurn

C14_Yaw ==
  \A i \in 1..Len(log') :
    log'[i][1] = "rotate" =>
      modelComponents'.container.yaw =
        (modelComponents.container.yaw + log'[i][2]) % FullTurn

C14_PitchClamped ==
  /\ []C14_Pitch
  /\ [][C14_Yaw]_vars

\* large moves have clamped the pitch at +90 degrees and turned the yaw to 180
C14_Witness ==
  /\ Len(log) > 0 /\ Head(log)[1] = "frame"
  /\ xrControl.isDragging
  /\ modelComponents.container.pitch = QuarterTurn
  /\ modelComponents.container.yaw = 2 * QuarterTurn

----------------------------------------------------------------------------
(* C15: currentTrackIndex is always an index of the track list and equals  *)
(* the number of next calls minus the number of previous calls, modulo the *)
(* length of the list (the index starts at 0); with a list of at most one  *)
(* track a next or previous call changes no program state.                 *)

SwitchCall == CallOf("playNextTrack") \/ CallOf("playPreviousTrack")

C15_Index ==
  LET n == Len(audioState.trackList) IN
    /\ audioState.currentTrackIndex \in 0..(n - 1)
    /\ audioState.currentTrackIndex = hist.net % n

C15_Single ==
  (SwitchCall /\ Len(audioState.trackList) <= 1) =>
    UNCHANGED <<gameState, audioState, animationControl, xrControl, modelComponents,
                handles, timers>>

C15_IndexRotates ==
  /\ []C15_Index
  /\ [][C15_Single]_vars

\* two previous calls on a list of three have wrapped the index to 1
C15_Witness ==
  /\ Len(audioState.trackList) = 3
  /\ hist.net = -2 /\ hist.switches = 2
  /\ audioState.currentTrackIndex = 1

----------------------------------------------------------------------------
(* C16: a track switch made while not playing leaves the music reference   *)
(* null, and the togglePlayback sequence that next starts the music (no    *)
(* switch continuation pending) plays a handle of the track at             *)
(* currentTrackIndex.                                                      *)

CurrentTrack == audioState.trackList[audioState.currentTrackIndex + 1]

\* the handle the step has issued play on
PlayedPath ==
  IF Did(<<"music.play">>) THEN handles'[audioState.musicAudio'].path
  ELSE handles'[Len(handles')].path

C16_Released ==
  (SwitchCall /\ ~gameState.playing /\ Len(audioState.trackList) > 1) =>
     audioState.musicAudio' = 0

C16_Started ==
  ((CallOf("togglePlayback") \/ StepOf("stylusOn"))
     /\ (Did(<<"music.play">>) \/ Did(<<"effect.play">>))
     /\ ~Pending("switch")) =>
    PlayedPath = CurrentTrack

C16_ToggleAfterSwitch ==
  /\ [][C16_Released /\ C16_Started]_vars

----------------------------------------------------------------------------
(* C17: when the continuation of a track switch made while playing runs,   *)
(* no input having been handled since the switch, and play() is not        *)
(* refused, then afterwards the state is still playing, no paused handle   *)
(* is referenced, and exactly one music handle plays, a handle of the      *)
(* track at currentTrackIndex.                                             *)

UnpausedAfter == {i \in MusicHandlesAfter : ~handles'[i].paused}

\* the continuation that runs was scheduled by the latest input
LatestInputFired(kind) ==
  \E i \in 1..Len(timers) :
    /\ timers[i].kind = kind /\ timers[i].left = 0
    /\ timers[i].at = Stamp(World)
    /\ timers' = RemoveAt(timers, i)

C17_Step ==
  (StepOf("switch") /\ LatestInputFired("switch") /\ gameState.playing
     /\ ~Did(<<"play failed">>)) =>
    /\ gameState.playing'
    /\ audioState.musicAudio' # 0 => ~handles'[audioState.musicAudio'].paused
    /\ Cardinality(UnpausedAfter) = 1
    /\ \A i \in UnpausedAfter :
         handles'[i].path = audioState'.trackList[audioState'.currentTrackIndex + 1]

C17_SwitchWhilePlaying == [][C17_Step]_vars

----------------------------------------------------------------------------
(* C18: gameState.playing is written only inside togglePlayback.           *)

\* the steps that run togglePlayback or the stylus_On continuation it
\* schedules
InTogglePlayback ==
  StepOf("toggle") \/ StepOf("stylusOn") \/ CallOf("togglePlayback")

\* C18, by step: a press (accepted or ignored), a press-end, a rendered frame
\* (hover or drag), a tick, the stylus_Off continuation, a track switch and
\* its continuation, and the session end leave gameState.playing as it was
C18_Others ==
  (StepOf("selectstart") \/ StepOf("selectend") \/ StepOf("frame")
     \/ StepOf("stylusOff") \/ StepOf("previous") \/ StepOf("next")
     \/ StepOf("switch") \/ StepOf("sessionend")) =>
    gameState.playing' = gameState.playing

\* C18: in every step that changes gameState.playing, togglePlayback or its
\* stylus_On continuation ran; presses, press-ends, frames, pauseMusic,
\* cleanupAudio, track switches and the session cleanup never change it
C18_OnlyToggleWrites ==
  [][(gameState.playing' # gameState.playing => InTogglePlayback) /\ C18_Others]_vars

\* the session ended while Playing, after a track switch: the music is
\* paused and the playback state still says Playing
C18_Witness ==
  /\ ~xrControl.session /\ gameState.playing
  /\ hist.switches > 0 /\ hist.cleanups > 0
  /\ ~MusicPlaying

----------------------------------------------------------------------------
(* C19: the visual chosen by updateButtonStateVisual() without argument.   *)

\* the calls of updateButtonStateVisual() without argument made in this
\* step: <<"visual", "auto", pressed, playing, hovering, selected>>
AutoCalls == {e \in Range(log') : e[1] = "visual" /\ e[2] = "auto"}

VisualCalls == {i \in 1..Len(log') : log'[i][1] = "visual"}

\* C19, selection: pressed wins, then playing, then hovering, else idle
C19_Priority ==
  \A e \in AutoCalls :
    /\ e[3] => e[6] = "pressed"
    /\ (~e[3] /\ e[4]) => e[6] = "playing"
    /\ (~e[3] /\ ~e[4] /\ e[5]) => e[6] = "hover"
    /\ (~e[3] /\ ~e[4] /\ ~e[5]) => e[6] = "idle"

\* C19, effect: the button shows what the last call of the step selected;
\* "idle" is the original material
C19_Shown ==
  VisualCalls # {} =>
    LET last == CHOOSE i \in VisualCalls : \A j \in VisualCalls : j <= i
    IN modelComponents'.visual = log'[last][6]

\* C19: for every combination of pressed, playing and hovering,
\* updateButtonStateVisual() without an explicit state selects pressed, else
\* playing, else hover, else idle, and idle puts the original material back
C19_VisualPriority == [][C19_Priority /\ C19_Shown]_vars

\* the call was just made with all three flags set, and chose pressed
C19_Witness ==
  /\ <<"visual", "auto", TRUE, TRUE, TRUE, "pressed">> \in Range(log)
  /\ modelComponents.visual = "pressed"

----------------------------------------------------------------------------
(* C20: the music plays exactly while the playback state is Playing.       *)

\* C20: while the session delivers presses and releases of the play button
\* (no track switch, play() never fails), the music handle is playing if and
\* only if gameState.playing
C20_MusicIffPlaying ==
  xrControl.session =>
    /\ MusicPlaying <=> gameState.playing
    /\ Unpaused \subseteq {audioState.musicAudio}

\* a start and a stop have both completed: the handle created by the start
\* is paused and the state is Stopped
C20_Witness ==
  /\ xrControl.session
  /\ hist.accepted = 2 /\ hist.changes = 2
  /\ audioState.musicAudio # 0
  /\ ~gameState.playing /\ ~MusicPlaying

----------------------------------------------------------------------------
(* C21: a failed music play does not break the toggle.                     *)

\* the step issued a music play that failed
MusicPlayFailed ==
  /\ Did(<<"music.play">>)
  /\ Did(<<"play failed">>) \/ Did(<<"creation failed">>)

\* C21, the start continuation: with the play refused or throwing, the
\* continuation still runs to its last statement (the visual refresh), the
\* state is Playing, the callback released the lock, no music sounds
C21_Continuation ==
  (StepOf("stylusOn") /\ MusicPlayFailed) =>
    /\ gameState.playing'
    /\ Did(<<"release">>) /\ ~xrControl.isAnimating'
    /\ log'[Len(log')][1] = "visual"
    /\ ~MusicPlaying'

\* C21, the retry: a press on the play button while Playing without sound
\* and with the lock free is accepted
C21_Retry ==
  (PressPlay /\ gameState.playing /\ ~MusicPlaying /\ ~xrControl.isAnimating) =>
    /\ hist.accepted' = hist.accepted + 1
    /\ Pending("toggle")'

----------------------------------------------------------------------------
(* C22: a press on the play button while the debounce lock is held.        *)

\* C22, by effect: the handler returns at the lock check, so the step logs
\* nothing but the event itself
C22_NoEffect ==
  (PressPlay /\ xrControl.isAnimating) =>
    /\ handles' = handles
    /\ animationControl' = animationControl
    /\ timers' = timers
    /\ log' = << <<"selectstart", "play">>, <<"end">> >>

C22_FlagsKept ==
  (PressPlay /\ xrControl.isAnimating) =>
    /\ xrControl'.buttonPressed = xrControl.buttonPressed
    /\ xrControl'.isAnimating
    /\ gameState' = gameState
    /\ audioState' = audioState
    /\ modelComponents' = modelComponents

\* C22: a press-begin on the play button while the lock is held creates no
\* click effect, starts or stops no animation, schedules no timer and leaves
\* the pressed flag, the lock and the playback state unchanged
C22_LockedPressInert == [][C22_NoEffect /\ C22_FlagsKept]_vars

\* the trigger was released and pressed again on the play button while the
\* lock was held: the press is over and the button is not shown pressed
C22_Witness ==
  /\ log = << <<"selectstart", "play">>, <<"end">> >>
  /\ xrControl.isAnimating /\ ~xrControl.buttonPressed
  /\ hist.accepted = 1 /\ Pending("toggle")

----------------------------------------------------------------------------
(* C23: the delay between an accepted press and its togglePlayback call.   *)

\* max(duration of button_down, 500 ms), 800 ms when it is unregistered
ExpectedButtonDelay ==
  IF "button_down" \notin DOMAIN animationControl.animations THEN DefaultButtonAnim
  ELSE IF animationControl.animations["button_down"] >= MinButtonDelay
       THEN animationControl.animations["button_down"]
       ELSE MinButtonDelay

\* C23, at the press: an accepted press schedules one timer, for that delay
C23_Scheduled ==
  hist.accepted' = hist.accepted + 1 =>
    /\ Len(timers') = Len(timers) + 1
    /\ SubSeq(timers', 1, Len(timers)) = timers
    /\ LET t == timers'[Len(timers')]
       IN t.kind = "toggle" /\ t.press = hist.accepted' /\ t.left = ExpectedButtonDelay
            /\ t.age = 0

\* C23, at the call: togglePlayback runs when the timer of its press has
\* waited exactly that delay, which is at least 500 ms
C23_Fired ==
  StepOf("toggle") =>
    /\ hist.toggles' = hist.toggles + 1
    /\ \E i \in 1..Len(timers) :
         /\ timers[i].kind = "toggle" /\ timers[i].press = Head(log')[2]
         /\ timers[i].age = ExpectedButtonDelay
         /\ timers[i].age >= MinButtonDelay

\* C23, the count: every accepted press has had its call or has its timer
\* waiting, never both and never two
C23_Once ==
  /\ \A p \in 1..hist.accepted :
       Cardinality({i \in 1..Len(timers) :
                      timers[i].kind = "toggle" /\ timers[i].press = p}) <= 1
  /\ hist.toggles + Cardinality({i \in 1..Len(timers) : timers[i].kind = "toggle"})
       = hist.accepted

\* C23: each accepted play-button press leads to exactly one togglePlayback
\* call, max(duration of button_down, 500 ms) after the press (800 ms when
\* button_down is unregistered), never earlier than 500 ms
C23_ToggleDelay == []C23_Once /\ [][C23_Scheduled /\ C23_Fired]_vars

\* the call of the second accepted press has just run, after waiting the
\* duration of a button_down clip longer than the floor
C23_Witness ==
  /\ Len(log) > 0 /\ Head(log) = <<"toggle", 2>>
  /\ "button_down" \in DOMAIN animationControl.animations
  /\ animationControl.animations["button_down"] = LongClipTicks
  /\ hist.toggles = 2

----------------------------------------------------------------------------
(* C24: nothing to do is never an error.                                   *)

\* the ray cast of this step met nothing, or there was no controller
NothingHit == Len(log') > 0 /\ Head(log')[2] \in {"none", "no controller"}

\* C24, press-begin: the handler runs to its end and changes nothing
C24_Press ==
  (StepOf("selectstart") /\ NothingHit) =>
    /\ OnlyLogChanged
    /\ log' = << Head(log'), <<"end">> >>

\* C24, interaction tick: with no hover and no drag in progress the handler
\* changes neither flags nor playback nor audio
C24_Tick ==
  (StepOf("frame") /\ NothingHit /\ ~xrControl.isHovering /\ ~xrControl.isDragging) =>
    /\ xrControl' = xrControl
    /\ gameState' = gameState
    /\ audioState' = audioState /\ handles' = handles
    /\ timers' = timers /\ animationControl' = animationControl
    /\ \A i \in 2..Len(log') : log'[i][1] = "vinyl"

\* C24: a press-begin without controller or with an empty intersection
\* list, and an interaction tick without hit while neither hovering nor
\* dragging, change no lock, flag, drag, playback or audio state and fail
\* nowhere
C24_NothingToDo == [][C24_Press /\ C24_Tick]_vars

\* a press-begin without controller has just been handled while the music
\* plays and the play button is hovered
C24_Witness ==
  /\ log = << <<"selectstart", "no controller">>, <<"end">> >>
  /\ gameState.playing /\ MusicPlaying
  /\ xrControl.isHovering

----------------------------------------------------------------------------
(* C25: playAnimation and stopAnimation with an unregistered name.         *)

\* the step is a call of playAnimation or stopAnimation with a name the
\* registry does not hold
UnregisteredCall ==
  /\ CallOf("playAnimation") \/ CallOf("stopAnimation")
  /\ log'[2][2] \notin DOMAIN animationControl.animations

\* C25: such a call changes no animation, playback or audio state and
\* returns normally, having done nothing
C25_Step ==
  UnregisteredCall =>
    /\ OnlyLogChanged
    /\ Len(log') = 2

C25_UnregisteredInert == [][C25_Step]_vars

\* stylus_On is not registered and has just been asked to play while
\* another clip is looping: the loop goes on, nothing else started
C25_Witness ==
  /\ Len(log) = 2 /\ log[1] = <<"call", "playAnimation">>
  /\ log[2][2] = "stylus_On"
  /\ "stylus_On" \notin DOMAIN animationControl.animations
  /\ "stylus_playing" \in DOMAIN animationControl.animations
  /\ animationControl.running["stylus_playing"] = "loop"

----------------------------------------------------------------------------
(* C26: what a press-end leaves behind.                                    *)

\* C26, cleared: after the handler the button is not pressed, nothing is
\* dragged and no drag target is recorded
C26_Cleared ==
  StepOf("selectend") =>
    /\ ~xrControl'.buttonPressed
    /\ ~xrControl'.isDragging
    /\ xrControl'.selectedModel = "null"

\* C26, kept: the debounce lock and the playback state are as before
C26_Kept ==
  StepOf("selectend") =>
    /\ xrControl'.isAnimating = xrControl.isAnimating
    /\ gameState' = gameState

\* C26: after any press-end, whatever was hit by the press-begins before it,
\* the pressed flag is false, the drag flag is false and no drag target is
\* recorded; the debounce lock and the playback state are unchanged
C26_PressEnd == [][C26_Cleared /\ C26_Kept]_vars

\* one press-end has just ended both a button press and a drag, with the
\* lock still held
C26_Witness ==
  /\ Len(log) > 0 /\ Head(log) = <<"selectend">>
  /\ <<"drag end">> \in Range(log)
  /\ \E e \in Range(log) : e[1] = "visual"
  /\ xrControl.isAnimating

----------------------------------------------------------------------------
(* C27: the hover flag after an interaction tick.                          *)

\* C27: after a rendered frame the hover flag is set only if the top
\* intersection of that frame is a button; with an empty list or another
\* object on top the flag is cleared
C27_Step ==
  (StepOf("frame") /\ Head(log')[2] # "button") => ~xrControl'.isHovering

C27_HoverOnlyOnButton == [][C27_Step]_vars

\* the ray has just moved from the play button to another object while the
\* button was neither pressed nor playing: hover ended, the visual is idle
C27_Witness ==
  /\ Len(log) > 0 /\ Head(log) = <<"frame", "object">>
  /\ <<"visual", "auto", FALSE, FALSE, FALSE, "idle">> \in Range(log)
  /\ ~xrControl.isHovering

----------------------------------------------------------------------------
(* C28: the vinyl turns exactly while Playing.                             *)

\* the changes of the vinyl's rotation made in this step
VinylTurns == {i \in 1..Len(log') : log'[i][1] = "vinyl"}

\* C28, per frame: one fixed step if gameState.playing, none otherwise
C28_Frame ==
  StepOf("frame") =>
    /\ gameState.playing => Cardinality(VinylTurns) = 1
    /\ ~gameState.playing => VinylTurns = {}
    /\ \A i \in VinylTurns : log'[i] = <<"vinyl", -VinylStep>>

\* C28, elsewhere: no other step turns the vinyl
C28_OnlyFrames == VinylTurns # {} => StepOf("frame")

\* C28: on each render tick the vinyl's rotation changes by one fixed step
\* if and only if the playback state is Playing at that tick; while Stopped,
\* Starting or Stopping it is left unchanged
C28_VinylWhilePlaying == [][C28_Frame /\ C28_OnlyFrames]_vars

\* a frame has just been rendered while Stopping (stylus_Off wait pending
\* after a completed start): the vinyl did not turn
C28_Witness ==
  /\ Len(log) > 0 /\ Head(log)[1] = "frame"
  /\ Pending("stylusOff") /\ ~gameState.playing
  /\ hist.changes = 2
  /\ \A e \in Range(log) : e[1] # "vinyl"

----------------------------------------------------------------------------
(* C29: music and playback state under track switches.                     *)

\* every track of the list is played through the music handle
AllLofi ==
  \A i \in 1..Len(audioState.trackList) : IncludesLofi(audioState.trackList[i])

\* C29: for any interleaving of play-button presses, timer firings and
\* track switches on a list of two tracks, a music handle is playing only
\* while gameState.playing: the delayed resume of a switch does not start
\* music once the state has left Playing
C29_MusicOnlyWhilePlaying ==
  AllLofi => (Unpaused # {} => gameState.playing)

----------------------------------------------------------------------------
(* C30: stylus_On and stylus_Off never overlap.                            *)

\* C30: under any press rate and any clip durations the stylus_On wait of a
\* start sequence and the stylus_Off wait of the stop sequence before it are
\* never pending together: stylus_On does not begin while stylus_Off is
\* still in progress
C30_StylusClipsExclusive == ~(Pending("stylusOn") /\ Pending("stylusOff"))


-----------------------------------------------------------------------------
(* C31: once the session 'end' listener has run cleanup, no music handle   *)
(* is playing, in that state and in every later one, whichever timers      *)
(* scheduled before the end of the session fire afterwards.                *)

C31_SilentAfterCleanup == ~xrControl.session => Unpaused = {} /\ ~MusicPlaying


-----------------------------------------------------------------------------
(* C32: whenever the pressed flag is set, the visual applied to the play   *)
(* button is the pressed one: no hover enter or exit and no toggle         *)
(* continuation that happens while pressed replaces it.                    *)

C32_PressedVisualKept == xrControl.buttonPressed => modelComponents.visual = "pressed"


-----------------------------------------------------------------------------
(* C33: with every clip registered, after each complete press-and-release  *)
(* gesture on the play button, begun once no timer of the gesture before   *)
(* is waiting, the HTML version and the original version agree on the      *)
(* playing flag and on the number of music audios that play, which is one  *)
(* when playing and none when stopped.                                     *)

OriginalUnpaused ==
  {i \in 1..Len(original.audios) :
     original.audios[i].path = "lofi.mp3" /\ ~original.audios[i].paused}

C33_VersionsAgree ==
  GestureIdle =>
    /\ gameState.playing = original.playing
    /\ Cardinality(Unpaused) = Cardinality(OriginalUnpaused)
    /\ Cardinality(Unpaused) = IF gameState.playing THEN 1 ELSE 0

\* three gestures are over: both versions play again, the HTML version on
\* its one music element, the original on its second
C33_Witness ==
  /\ GestureIdle
  /\ hist.accepted = 3 /\ hist.toggles = 3
  /\ gameState.playing /\ original.playing
  /\ Cardinality(MusicHandles) = 1 /\ Unpaused = {audioState.musicAudio}
  /\ Cardinality({i \in 1..Len(original.audios) : original.audios[i].path = "lofi.mp3"}) = 2
  /\ OriginalUnpaused = {original.musicAudio}

====
